---- MODULE Spec2Model ----
(***************************************************************************)
(* Fund-transfer subsystem of lapore-capital: TransactionService.sendFunds *)
(* (src/src/lib/transactionService.ts) running as concurrent async calls   *)
(* against the shared store (tables `profiles` and `transactions`).        *)
(*                                                                         *)
(* Every `await supabase...` of sendFunds is one atomic store operation    *)
(* followed by the synchronous code up to the next await; calls interleave *)
(* only at awaits.  Amounts and balances are integers (minor units).       *)
(***************************************************************************)
EXTENDS Integers, Sequences, FiniteSets, TLC

\* ------------------------------------------------------------------ bounds
NumCalls == 2
MaxAmount == 2
MaxInitBalance == 2
MaxTime == 1
MaxLimit == 2
MaxLedger == 3
MaxAts == 2
NumDashboards == 2
MaxScans == 2
MaxPendingFinds == 1
MaxChains == 2
MaxIntervals == 3
MaxMounts == 2
MaxTimers == 1
\* WalletPage.handleScan's fixed `amount` (line 40).
ScanAmount == 500
\* getTransactionHistory's default `limit` (line 162).
DefaultLimit == 50

\* ------------------------------------------------------------ the store
\* Rows of table `profiles`; account creation is outside sendFunds, so the
\* set of existing accounts is fixed.
Accounts == {"a", "b", "c"}
\* Identifiers a request can carry: the existing accounts and an unknown id.
Ids == Accounts \cup {"x"}
Amounts == {0 - 1} \cup (0 .. MaxAmount)
Calls == 1 .. NumCalls
\* Values of `new Date().toISOString()` (line 62), in clock ticks.
Times == 0 .. MaxTime

\* What one awaited store call can do: return data, return {error}, or throw.
StoreOutcomes == {"ok", "error", "throw"}

\* ------------------------------------------------------- result messages
Success == "success"
ErrAmount == "Amount must be greater than zero"
ErrSelf == "Cannot send funds to yourself"
ErrSender == "Sender account not found"
ErrInsufficient == "Insufficient balance"
ErrReceiver == "Receiver account not found"
ErrTx == "Failed to create transaction record"
ErrSenderUpdate == "Failed to update sender balance"
ErrReceiverUpdate == "Failed to update receiver balance"
ErrUnexpected == "An unexpected error occurred. Please try again."

ValidationErrors == {ErrAmount, ErrSelf, ErrSender, ErrInsufficient, ErrReceiver}

\* Text a caller can type as a recipient: `ats` leading '@' characters
\* followed by `body`.  The bodies in Ids are UUID-shaped, the others not.
Handles == {"ann", "bob"}
Texts == [ats : 0 .. MaxAts, body : Ids \cup Handles]
\* The regular expression of line 129.
IsUUID(text) == text.ats = 0 /\ text.body \in Ids
\* Line 142: one leading '@' removed.
StripAt(text) == IF text.ats > 0 THEN [text EXCEPT !.ats = @ - 1] ELSE text
Null == "null"
Limits == (1 .. MaxLimit) \cup {DefaultLimit}
NoRead == [op |-> "none", arg |-> Null, limit |-> 0, ok |-> TRUE,
           value |-> Null]

\* ---------------------------------------------------------- the pages
\* Open Dashboard pages; each belongs to one signed-in account.
Dashboards == 1 .. NumDashboards
DashUser(d) == IF d = 1 THEN "a" ELSE "b"

\* The account signed in on the WalletPage.
WalletAccount == "a"

\* The `message` of a store error or of an exception; it can be empty.
Messages == {"", "Failed to fetch"}
DashOutcomes ==
    {[kind |-> "ok", message |-> ""]}
        \cup [kind : {"error", "throw"}, message : Messages]

\* Lines 221-233 and 249 of Dashboard.tsx, and the fallback of line 299.
DashErrAmount == "Please enter a valid amount."
DashErrInsufficient == "Insufficient balance in your vault."
DashErrReceiverId == "Please enter a valid receiver ID."
DashErrSelf == "Cannot send funds to yourself."
DashErrNotFound == "Receiver vault not found."
DashErrFallback == "Failed to process transaction."

\* Receiver ids typed or scanned into the Dashboard form; "" is too short.
DashReceiverIds == Ids \cup {""}
NoInput == [receiverId |-> "", amount |-> 0, balance |-> 0]

\* ------------------------------------------------------ SendFundsModal
\* The account the modal's `currentUser` prop names.
CurrentUser == "a"

\* What the recipient field can hold; the body "" is the empty field.
EmptyText == [ats |-> 0, body |-> ""]
RecipientInputs ==
    {EmptyText} \cup {t \in Texts : t.ats = 0 /\ t.body \in {"a", "b", "x"}}
                \cup {t \in Texts : t.ats = 1 /\ t.body = "bob"}

\* parseFloat of the amount field: not a number, or a number.
AmountInputs ==
    {[nan |-> TRUE, value |-> 0]}
        \cup [nan : {FALSE}, value : {0, 1, MaxInitBalance + 1}]

SendSteps == {"input", "confirm", "processing", "success", "error"}

\* App.tsx lines 164, 171, 176, 189, 194 and 217.
ModalErrEmpty == "Please enter a wallet address or username"
ModalErrNotFound ==
    "Recipient not found. Please check the wallet address or username."
ModalErrSelf == "You cannot send funds to yourself"
ModalErrAmount == "Please enter a valid amount"
ModalErrInsufficient == "Insufficient balance. Available"
ModalErrFailed == "Transaction failed"

NoEvent == [handler |-> "none", case |-> "none"]

\* ------------------------------------------------ QR payloads (JSON text)
\* A JavaScript value: a string, a number (by its digits), null, undefined.
JStr(text) == [t |-> "string", v |-> text]
JNum(digits) == [t |-> "number", v |-> digits]
JNull == [t |-> "null", v |-> ""]
Undefined == [t |-> "undefined", v |-> ""]

\* JavaScript truthiness of a value.
Truthy(val) ==
    \/ val.t = "string" /\ val.v # ""
    \/ val.t = "number" /\ val.v # "0"

TransferType == "lapore-finance-transfer"

\* A text is the JSON of an object (its members in writing order), the
\* JSON of null or of a number, or no JSON at all.
ObjectText(members) == [kind |-> "object", members |-> members]
LiteralText(kind) == [kind |-> kind, members |-> <<>>]
NoText == LiteralText("none")

Member(key, val) == [key |-> key, val |-> val]

\* JSON.stringify of an object literal: the properties in the order they
\* were written, those whose value is undefined left out.
IsDefined(m) == m.val.t # "undefined"
JSONStringify(props) == ObjectText(SelectSeq(props, IsDefined))

\* Property `key` of the object JSON.parse builds from the members: the
\* last member of that name, undefined when there is none.
RECURSIVE Property(_, _)
Property(members, key) ==
    IF members = <<>> THEN Undefined
    ELSE IF members[Len(members)].key = key THEN members[Len(members)].val
    ELSE Property(SubSeq(members, 1, Len(members) - 1), key)

\* Lines 196-203: generateReceiveQRData.
GenerateReceiveQRData(userId, uname, stamp) ==
    JSONStringify(<<Member("type", JStr(TransferType)),
                    Member("userId", userId),
                    Member("username", uname),
                    Member("timestamp", stamp)>>)

NullResult == [null |-> TRUE, userId |-> Undefined, username |-> Undefined]

\* parseQRData that accepts any type discriminator.
ParseQRData_AnyType(qr) ==
    IF qr.kind # "object"
      THEN NullResult
    ELSE IF Truthy(Property(qr.members, "userId"))
      THEN [null |-> FALSE,
            userId |-> Property(qr.members, "userId"),
            username |-> Property(qr.members, "username")]
    ELSE NullResult

\* Lines 208-221: parseQRData. JSON.parse throws on text that is no JSON;
\* reading `.type` of a parsed null throws; both are caught (line 218).
ParseQRData(qr) ==
    IF qr.kind # "object"
      THEN NullResult
    ELSE IF /\ Property(qr.members, "type") = JStr(TransferType)
            /\ Truthy(Property(qr.members, "userId"))
      THEN [null |-> FALSE,
            userId |-> Property(qr.members, "userId"),
            username |-> Property(qr.members, "username")]
    ELSE NullResult

\* Arguments generateReceiveQRData is called with, and Date.now() values.
QRUserIds == {JStr(""), JStr("a"), JStr("b")}
QRUsernames == {Undefined, JStr(""), JStr("bob")}
QRStamps == {JNum("0"), JNum("1700000000000")}
NoArgs == [userId |-> Undefined, username |-> Undefined]

\* Texts a scanned code can hold: no JSON, JSON that is no object, and
\* objects with any of the three members missing or off.
ScannedTypes == {Undefined, JStr(TransferType), JStr("other")}
ScannedUserIds == {Undefined, JNull, JNum("0"), JStr(""), JStr("a")}
ScannedObject(ty, userId, uname) ==
    JSONStringify(<<Member("type", ty), Member("userId", userId),
                    Member("username", uname)>>)
QRPayloads ==
    {LiteralText("garbage"), LiteralText("null"), LiteralText("number")}
        \cup {ScannedObject(ty, u, n) :
                 ty \in ScannedTypes, u \in ScannedUserIds,
                 n \in {Undefined, JStr("bob")}}
NoParse == [input |-> NoText, output |-> NullResult]
NoScan == NullResult
AuthUsers == {"a", "b"}

NoRequest == [sender_id |-> "x", receiver_id |-> "x", amount |-> 0]
NoProfile == 0 - 1

VARIABLES
    balance,          \* profiles.balance, per existing account
    ledger,           \* table transactions, in insertion order
    now,              \* the wall clock read by `new Date()`
    pc,               \* per call: the await it is suspended at
    request,          \* per call: the TransactionRequest
    senderProfile,    \* per call: senderProfile.balance as read (line 33)
    receiverProfile,  \* per call: receiverProfile.balance as read (line 51)
    timestamp,        \* per call: the timestamp taken at line 62
    transaction,      \* per call: index of the row its insert returned, 0 if none
    result,           \* per call: "none" while running, then Success or the error
    storeLog,         \* per call: the store calls it issued, with their outcomes
    balanceBefore,    \* per call: balances when the call started
    ledgerBefore,     \* per call: ledger when the call started
    interleaved,      \* per call: another call wrote a balance while it ran
    initialBalance,   \* balances before any call
    username,         \* profiles.username, per existing account (unique)
    readResult,       \* what the read-path call(s) since the last transfer
                      \* step were asked and returned
    walletUser,       \* WalletPage: `user` state
    walletBalance,    \* WalletPage: `balance` state
    walletScanned,    \* WalletPage: `scanned` state
    dashPc,           \* per Dashboard: where its executeTransfer stands
    dashProfile,      \* per Dashboard: balance of its `profile` state
    dashInput,        \* per Dashboard: what the running executeTransfer captured
    dashReceiver,     \* per Dashboard: `currentReceiver.balance`
    dashError,        \* per Dashboard: `transferError` state
    dashApplied,      \* per Dashboard: the writes its transfer has applied
    modalOpen,        \* SendFundsModal: `isOpen` prop
    step,             \* SendFundsModal: `step` state
    recipient,        \* SendFundsModal: `recipient` state
    amountInput,      \* SendFundsModal: `amount` state, as parseFloat reads it
    modalReceiver,    \* SendFundsModal: id of `receiverProfile`, or Null
    modalError,       \* SendFundsModal: `error` state
    modalBalance,     \* SendFundsModal: `currentUser.balance`
    pendingFinds,     \* identifiers whose getUserByIdentifier is awaited
    awaited,          \* calls whose result a handleSend is awaiting
    closeTimers,      \* pending 2-second timers of line 211
    shownFor,         \* the call whose result set the current step, or 0
    closedAfterDebit, \* calls in flight past the debit when the modal closed
    resolvedIds,      \* ids getUserByIdentifier has returned to the modal
    modalEvent,       \* the latest handler run and the branch it took
    qrArgs,           \* arguments of the latest generateReceiveQRData call
    qrData,           \* the text that call returned
    qrParsed,         \* the latest parseQRData call: its input and result
    authSession,      \* AuthProvider: user id of `session`, or Null
    authProfile,      \* AuthProvider: user id of `profile`, or Null
    initialized,      \* AuthProvider: `initialized` state
    pendingChange,    \* handleSessionChange calls awaiting fetchProfile
    pendingRefresh,   \* refreshProfile calls awaiting fetchProfile
    scannerOpen,      \* QRScannerModal: `isOpen` prop
    scannerMount,     \* QRScannerModal: how often it was opened
    isScanning,       \* QRScannerModal: `isScanning` state
    hasPermission,    \* QRScannerModal: `hasPermission` state
    permissionDenied, \* QRScannerModal: `permissionDenied` state
    scanIntervalRef,  \* QRScannerModal: `scanIntervalRef.current`, or 0
    intervals,        \* the interval timers that are active
    nextInterval,     \* the id window.setInterval returns next
    cameraChains,     \* startCamera calls that have not finished
    startTimers,      \* pending 500 ms timers of line 126
    resumeTimers,     \* pending 2-second timers of line 247
    streaming,        \* the video element shown has the camera stream
    scanSuccess       \* the latest onScanSuccess call, or NoScan

modalVars == <<modalOpen, step, recipient, amountInput, modalReceiver,
               modalError, modalBalance, pendingFinds, awaited, closeTimers,
               shownFor, closedAfterDebit, resolvedIds, modalEvent>>

qrVars == <<qrArgs, qrData, qrParsed>>

authVars == <<authSession, authProfile, initialized, pendingChange,
              pendingRefresh>>

scannerVars == <<scannerOpen, scannerMount, isScanning, hasPermission,
                 permissionDenied, scanIntervalRef, intervals, nextInterval,
                 cameraChains, startTimers, resumeTimers, streaming,
                 scanSuccess>>

\* The components that never touch the store.
sideVars == <<qrVars, authVars, scannerVars>>

vars == <<balance, ledger, now, pc, request, senderProfile, receiverProfile,
          timestamp, transaction, result, storeLog, balanceBefore, ledgerBefore,
          interleaved, initialBalance, username, readResult,
          walletUser, walletBalance, walletScanned, dashPc, dashProfile, dashInput,
          dashReceiver, dashError, dashApplied, modalVars, sideVars>>

readVars == <<username, readResult>>

walletVars == <<walletUser, walletBalance, walletScanned>>

dashVars == <<dashPc, dashProfile, dashInput, dashReceiver, dashError,
              dashApplied>>

pageVars == <<walletVars, dashVars, sideVars>>

InFlight(c) == pc[c] \notin {"idle", "done"}
NoneInFlight == \A c \in Calls : ~InFlight(c)

\* The store before any call: the profiles exist with their balances and
\* usernames, the transactions table is empty.
InitStore ==
    /\ balance \in [Accounts -> {0, MaxInitBalance}]
    /\ initialBalance = balance
    /\ ledger = <<>>
    /\ now = 0
    /\ username = ("a" :> [ats |-> 0, body |-> "ann"])
                     @@ ("b" :> [ats |-> 0, body |-> "bob"])
                     @@ ("c" :> [ats |-> 1, body |-> "bob"])

\* No sendFunds call has been made.
InitCalls ==
    /\ pc = [c \in Calls |-> "idle"]
    /\ request = [c \in Calls |-> NoRequest]
    /\ senderProfile = [c \in Calls |-> NoProfile]
    /\ receiverProfile = [c \in Calls |-> NoProfile]
    /\ timestamp = [c \in Calls |-> 0]
    /\ transaction = [c \in Calls |-> 0]
    /\ result = [c \in Calls |-> "none"]
    /\ storeLog = [c \in Calls |-> <<>>]
    /\ balanceBefore = [c \in Calls |-> initialBalance]
    /\ ledgerBefore = [c \in Calls |-> <<>>]
    /\ interleaved = [c \in Calls |-> FALSE]

\* No read-path call has been made.
InitReads ==
    /\ readResult = NoRead

\* Lines 151-156: the modal as mounted, closed.
InitModal ==
    /\ modalOpen = FALSE
    /\ step = "input"
    /\ recipient = EmptyText
    /\ amountInput = [nan |-> TRUE, value |-> 0]
    /\ modalReceiver = Null
    /\ modalError = ""
    /\ modalBalance = MaxInitBalance
    /\ pendingFinds = {}
    /\ awaited = {}
    /\ closeTimers = 0
    /\ shownFor = 0
    /\ closedAfterDebit = {}
    /\ resolvedIds = {}
    /\ modalEvent = NoEvent

\* No QR payload has been generated or parsed.
InitQR ==
    /\ qrArgs = NoArgs
    /\ qrData = NoText
    /\ qrParsed = NoParse

\* Lines 63-66 of ProtectedRoute.tsx: the AuthProvider as mounted.
InitAuth ==
    /\ authSession = Null
    /\ authProfile = Null
    /\ initialized = FALSE
    /\ pendingChange = {}
    /\ pendingRefresh = {}

\* Lines 16-25 of QRScannerModal.tsx: the scanner as mounted, closed.
InitScanner ==
    /\ scannerOpen = FALSE
    /\ scannerMount = 0
    /\ isScanning = FALSE
    /\ hasPermission = Null
    /\ permissionDenied = FALSE
    /\ scanIntervalRef = 0
    /\ intervals = {}
    /\ nextInterval = 1
    /\ cameraChains = [sees \in BOOLEAN |-> 0]
    /\ startTimers = [sees \in BOOLEAN |-> 0]
    /\ resumeTimers = [sees \in BOOLEAN |-> 0]
    /\ streaming = FALSE
    /\ scanSuccess = NoScan

\* The pages as mounted: no user or profile loaded, no transfer started.
InitPages ==
    /\ InitModal
    /\ InitQR /\ InitAuth /\ InitScanner
    /\ walletUser = Null
    /\ walletBalance = 0
    /\ walletScanned = Null
    /\ dashPc = [d \in Dashboards |-> "idle"]
    /\ dashProfile = [d \in Dashboards |-> NoProfile]
    /\ dashInput = [d \in Dashboards |-> NoInput]
    /\ dashReceiver = [d \in Dashboards |-> 0]
    /\ dashError = [d \in Dashboards |-> Null]
    /\ dashApplied = [d \in Dashboards |-> {}]

Init == InitStore /\ InitCalls /\ InitReads /\ InitPages

\* The call returns `r`: the promise settles.
Return(c, r) ==
    /\ pc' = [pc EXCEPT ![c] = "done"]
    /\ result' = [result EXCEPT ![c] = r]

\* The call suspends at its next await.
Await(c, label) ==
    /\ pc' = [pc EXCEPT ![c] = label]
    /\ UNCHANGED result

Logged(c, op, o) == storeLog' = [storeLog EXCEPT ![c] = Append(@, <<op, o>>)]

\* A balance write by call c is an interleaved mutation for every other
\* call that is in flight.
MarkInterleaved(c) ==
    interleaved' = [d \in Calls |->
                      interleaved[d] \/ (d # c /\ InFlight(d))]

\* sendFunds without the self-transfer validation of lines 27-30.
SendFunds_NoSelfCheck(c, req) ==
    /\ pc[c] = "idle"
    /\ \A d \in Calls : d < c => pc[d] # "idle"
    /\ request' = [request EXCEPT ![c] = req]
    /\ balanceBefore' = [balanceBefore EXCEPT ![c] = balance]
    /\ ledgerBefore' = [ledgerBefore EXCEPT ![c] = ledger]
    /\ IF req.amount <= 0
         THEN Return(c, ErrAmount)
         ELSE Await(c, "getSender")
    /\ UNCHANGED <<balance, ledger, senderProfile, receiverProfile, timestamp,
                   transaction, storeLog, interleaved, initialBalance, now>>

\* sendFunds that rejects a request the ledger already records (a
\* deduplicating variant).
SendFunds_Deduplicating(c, req) ==
    /\ pc[c] = "idle"
    /\ \A d \in Calls : d < c => pc[d] # "idle"
    /\ request' = [request EXCEPT ![c] = req]
    /\ balanceBefore' = [balanceBefore EXCEPT ![c] = balance]
    /\ ledgerBefore' = [ledgerBefore EXCEPT ![c] = ledger]
    /\ IF req.amount <= 0
         THEN Return(c, ErrAmount)
         ELSE IF req.sender_id = req.receiver_id
                THEN Return(c, ErrSelf)
                ELSE IF \E i \in 1 .. Len(ledger) :
                           /\ ledger[i].sender_id = req.sender_id
                           /\ ledger[i].receiver_id = req.receiver_id
                           /\ ledger[i].amount = req.amount
                       THEN Return(c, ErrUnexpected)
                       ELSE Await(c, "getSender")
    /\ UNCHANGED <<balance, ledger, senderProfile, receiverProfile, timestamp,
                   transaction, storeLog, interleaved, initialBalance, now>>

\* Lines 18-37: destructure the request, the two synchronous validations,
\* then issue the sender select.  Calls are numbered in the order they are
\* made.
SendFunds(c, req) ==
    /\ pc[c] = "idle"
    /\ \A d \in Calls : d < c => pc[d] # "idle"
    /\ request' = [request EXCEPT ![c] = req]
    /\ balanceBefore' = [balanceBefore EXCEPT ![c] = balance]
    /\ ledgerBefore' = [ledgerBefore EXCEPT ![c] = ledger]
    /\ IF req.amount <= 0
         THEN Return(c, ErrAmount)
         ELSE IF req.sender_id = req.receiver_id
                THEN Return(c, ErrSelf)
                ELSE Await(c, "getSender")
    /\ UNCHANGED <<balance, ledger, senderProfile, receiverProfile, timestamp,
                   transaction, storeLog, interleaved, initialBalance, now>>

\* The sender select without the balance check of lines 43-48.
GetSender_NoBalanceCheck(c, o) ==
    /\ pc[c] = "getSender"
    /\ Logged(c, "selectSender", o)
    /\ LET s == request[c].sender_id
           found == o = "ok" /\ s \in Accounts
       IN  /\ senderProfile' =
                [senderProfile EXCEPT ![c] = IF found THEN balance[s] ELSE @]
           /\ IF o = "throw"
                THEN Return(c, ErrUnexpected)
                ELSE IF ~found
                       THEN Return(c, ErrSender)
                       ELSE Await(c, "getReceiver")
    /\ UNCHANGED <<balance, ledger, request, receiverProfile, timestamp,
                   transaction, balanceBefore, ledgerBefore, interleaved,
                   initialBalance, now>>

\* Lines 33-55: the sender select completes; existence and balance checks;
\* then the receiver select is issued.
GetSender(c, o) ==
    /\ pc[c] = "getSender"
    /\ Logged(c, "selectSender", o)
    /\ LET s == request[c].sender_id
           found == o = "ok" /\ s \in Accounts
       IN  /\ senderProfile' =
                [senderProfile EXCEPT ![c] = IF found THEN balance[s] ELSE @]
           /\ IF o = "throw"
                THEN Return(c, ErrUnexpected)
                ELSE IF ~found
                       THEN Return(c, ErrSender)
                       ELSE IF balance[s] < request[c].amount
                              THEN Return(c, ErrInsufficient)
                              ELSE Await(c, "getReceiver")
    /\ UNCHANGED <<balance, ledger, request, receiverProfile, timestamp,
                   transaction, balanceBefore, ledgerBefore, interleaved,
                   initialBalance, now>>

\* The receiver select with the transaction row written before the receiver
\* is verified.
GetReceiver_InsertFirst(c, o) ==
    /\ pc[c] = "getReceiver"
    /\ Logged(c, "selectReceiver", o)
    /\ ledger' = Append(ledger, [sender_id |-> request[c].sender_id,
                                 receiver_id |-> request[c].receiver_id,
                                 amount |-> request[c].amount,
                                 timestamp |-> 0,
                                 type |-> Null])
    /\ UNCHANGED timestamp
    /\ transaction' = [transaction EXCEPT ![c] = Len(ledger) + 1]
    /\ LET r == request[c].receiver_id
           found == o = "ok" /\ r \in Accounts
       IN  /\ receiverProfile' =
                [receiverProfile EXCEPT ![c] = IF found THEN balance[r] ELSE @]
           /\ IF o = "throw"
                THEN Return(c, ErrUnexpected)
                ELSE IF ~found
                       THEN Return(c, ErrReceiver)
                       ELSE Await(c, "updateSender")
    /\ UNCHANGED <<balance, request, senderProfile,
                   balanceBefore, ledgerBefore, interleaved, initialBalance, now>>

\* Lines 51-75: the receiver select completes; existence check; then the
\* transaction insert is issued.
GetReceiver(c, o) ==
    /\ pc[c] = "getReceiver"
    /\ Logged(c, "selectReceiver", o)
    /\ LET r == request[c].receiver_id
           found == o = "ok" /\ r \in Accounts
       IN  /\ receiverProfile' =
                [receiverProfile EXCEPT ![c] = IF found THEN balance[r] ELSE @]
           /\ IF o = "throw"
                THEN Return(c, ErrUnexpected) /\ UNCHANGED timestamp
                ELSE IF ~found
                       THEN Return(c, ErrReceiver) /\ UNCHANGED timestamp
                       ELSE /\ timestamp' = [timestamp EXCEPT ![c] = now]
                            /\ Await(c, "insertTransaction")
    /\ UNCHANGED <<balance, ledger, request, senderProfile, transaction,
                   balanceBefore, ledgerBefore, interleaved, initialBalance, now>>

\* An insert that replaces the latest row of `transactions` when there is one.
InsertTransaction_Overwrite(c, o) ==
    /\ pc[c] = "insertTransaction"
    /\ Logged(c, "insertTransaction", o)
    /\ IF o = "ok"
         THEN /\ ledger' =
                    LET row == [sender_id |-> request[c].sender_id,
                                receiver_id |-> request[c].receiver_id,
                                amount |-> request[c].amount,
                                timestamp |-> timestamp[c],
                                type |-> Null]
                    IN  IF Len(ledger) > 0
                          THEN [ledger EXCEPT ![Len(ledger)] = row]
                          ELSE <<row>>
              /\ transaction' = [transaction EXCEPT ![c] = Len(ledger')]
              /\ Await(c, "updateSender")
         ELSE /\ UNCHANGED <<ledger, transaction>>
              /\ Return(c, IF o = "throw" THEN ErrUnexpected ELSE ErrTx)
    /\ UNCHANGED <<balance, request, senderProfile, receiverProfile, timestamp,
                   balanceBefore, ledgerBefore, interleaved, initialBalance, now>>

\* Lines 64-86: the insert into `transactions` completes; then the sender
\* balance update is issued.
InsertTransaction(c, o) ==
    /\ pc[c] = "insertTransaction"
    /\ Logged(c, "insertTransaction", o)
    /\ IF o = "ok"
         THEN /\ ledger' = Append(ledger,
                              [sender_id |-> request[c].sender_id,
                               receiver_id |-> request[c].receiver_id,
                               amount |-> request[c].amount,
                               timestamp |-> timestamp[c],
                               type |-> Null])
              /\ transaction' = [transaction EXCEPT ![c] = Len(ledger) + 1]
              /\ Await(c, "updateSender")
         ELSE /\ UNCHANGED <<ledger, transaction>>
              /\ Return(c, IF o = "throw" THEN ErrUnexpected ELSE ErrTx)
    /\ UNCHANGED <<balance, request, senderProfile, receiverProfile, timestamp,
                   balanceBefore, ledgerBefore, interleaved, initialBalance, now>>

\* A debit computed from the stored balance at write time, unchecked.
SenderUpdateValue_AtWriteTime(c) ==
    balance[request[c].sender_id] - request[c].amount

\* The value line 85 writes to the sender's row.
SenderUpdateValue(c) == senderProfile[c] - request[c].amount

\* Lines 83-97: the sender balance update completes; then the receiver
\* balance update is issued.
UpdateSender(c, o) ==
    /\ pc[c] = "updateSender"
    /\ Logged(c, "updateSender", o)
    /\ IF o = "ok"
         THEN /\ balance' = [balance EXCEPT
                               ![request[c].sender_id] = SenderUpdateValue(c)]
              /\ MarkInterleaved(c)
              /\ Await(c, "updateReceiver")
         ELSE /\ UNCHANGED <<balance, interleaved>>
              /\ Return(c, IF o = "throw" THEN ErrUnexpected
                                          ELSE ErrSenderUpdate)
    /\ UNCHANGED <<ledger, request, senderProfile, receiverProfile, timestamp,
                   transaction, balanceBefore, ledgerBefore, initialBalance, now>>

\* A credit that forgets the amount.
ReceiverUpdateValue_NoCredit(c) == receiverProfile[c]

\* The value line 96 writes to the receiver's row.
ReceiverUpdateValue(c) == receiverProfile[c] + request[c].amount

\* Lines 94-112: the receiver balance update completes; the call returns.
UpdateReceiver(c, o) ==
    /\ pc[c] = "updateReceiver"
    /\ Logged(c, "updateReceiver", o)
    /\ IF o = "ok"
         THEN /\ balance' = [balance EXCEPT
                               ![request[c].receiver_id] = ReceiverUpdateValue(c)]
              /\ MarkInterleaved(c)
              /\ Return(c, Success)
         ELSE /\ UNCHANGED <<balance, interleaved>>
              /\ Return(c, IF o = "throw" THEN ErrUnexpected
                                          ELSE ErrReceiverUpdate)
    /\ UNCHANGED <<ledger, request, senderProfile, receiverProfile, timestamp,
                   transaction, balanceBefore, ledgerBefore, initialBalance, now>>

\* ------------------------------------------------------ the read paths
callVars == <<pc, request, senderProfile, receiverProfile, timestamp,
              transaction, result, storeLog, balanceBefore, ledgerBefore,
              interleaved>>

Min(m, n) == IF m < n THEN m ELSE n

\* Line 171: the rows in which userId is the sender or the receiver.
Matching(l, userId) ==
    {i \in 1 .. Len(l) : l[i].sender_id = userId \/ l[i].receiver_id = userId}

\* Rows ordered by timestamp ascending.
Orderings_Ascending(l, S) ==
    {f \in [1 .. Cardinality(S) -> S] :
        /\ \A i, j \in DOMAIN f : i # j => f[i] # f[j]
        /\ \A i, j \in DOMAIN f :
               i < j => l[f[i]].timestamp <= l[f[j]].timestamp}

\* Line 172: `.order('timestamp', { ascending: false })`.  The store leaves
\* the order of rows with equal timestamps unspecified, so every order that
\* is descending by timestamp is a possible answer.
Orderings(l, S) ==
    {f \in [1 .. Cardinality(S) -> S] :
        /\ \A i, j \in DOMAIN f : i # j => f[i] # f[j]
        /\ \A i, j \in DOMAIN f :
               i < j => l[f[i]].timestamp >= l[f[j]].timestamp}

\* Line 173: `.limit(limit)`.
Take(rows, limit) == SubSeq(rows, 1, Min(limit, Len(rows)))

\* Lines 181-184: each returned row (`...tx`) with its type from the user's
\* perspective, which replaces the row's own `type` column.  A row's id is
\* its position in the table.
WithType(l, userId, rows) ==
    [k \in 1 .. Len(rows) |->
        [id |-> rows[k],
         sender_id |-> l[rows[k]].sender_id,
         receiver_id |-> l[rows[k]].receiver_id,
         amount |-> l[rows[k]].amount,
         timestamp |-> l[rows[k]].timestamp,
         type |-> IF l[rows[k]].sender_id = userId THEN "send"
                                                   ELSE "receive"]]

\* Lines 162-191: getTransactionHistory(userId, limit); a store error or an
\* exception gives the empty list.
GetTransactionHistory(userId, limit, o) ==
    /\ \E rows \in Orderings(ledger, Matching(ledger, userId)) :
          readResult' =
              [op |-> "getTransactionHistory", arg |-> userId,
               limit |-> limit, ok |-> o = "ok",
               value |-> IF o = "ok"
                           THEN WithType(ledger, userId, Take(rows, limit))
                           ELSE <<>>]
    /\ UNCHANGED <<balance, ledger, now, initialBalance, username, callVars,
                   pageVars, modalVars>>

\* The accounts whose username is `text`.
ByUsername(text) == {a \in Accounts : username[a] = text}

\* getUserByIdentifier trying the username before the id.
GetUserByIdentifier_UsernameFirst(identifier, o1, o2) ==
    /\ LET named == ByUsername(StripAt(identifier))
           byName == IF o2 = "ok" /\ Cardinality(named) = 1
                       THEN CHOOSE a \in named : TRUE ELSE Null
           byId == IF IsUUID(identifier) /\ o1 = "ok"
                      /\ identifier.body \in Accounts
                     THEN identifier.body ELSE Null
       IN  readResult' =
               [op |-> "getUserByIdentifier", arg |-> identifier, limit |-> 0,
                ok |-> (IsUUID(identifier) => o1 = "ok") /\ o2 = "ok",
                value |-> IF byName # Null THEN byName ELSE byId]
    /\ UNCHANGED <<balance, ledger, now, initialBalance, username, callVars,
                   pageVars>>

\* Lines 126-156: getUserByIdentifier(identifier).  o1 is the outcome of the
\* select by id (issued only for UUID-shaped text), o2 of the select by
\* username; `.single()` gives an error unless exactly one row matches.
GetUserByIdentifier(identifier, o1, o2) ==
    /\ LET byId == IF IsUUID(identifier) /\ o1 = "ok"
                      /\ identifier.body \in Accounts
                     THEN identifier.body ELSE Null
           named == ByUsername(StripAt(identifier))
           byName == IF o2 = "ok" /\ Cardinality(named) = 1
                       THEN CHOOSE a \in named : TRUE ELSE Null
           idIssued == IsUUID(identifier)
           nameIssued == ~(idIssued /\ (o1 = "throw" \/ byId # Null))
       IN  readResult' =
               [op |-> "getUserByIdentifier", arg |-> identifier, limit |-> 0,
                ok |-> (idIssued => o1 = "ok") /\ (nameIssued => o2 = "ok"),
                value |-> IF idIssued /\ o1 = "throw" THEN Null
                          ELSE IF byId # Null THEN byId
                          ELSE IF o2 = "throw" THEN Null
                          ELSE byName]
    /\ UNCHANGED <<balance, ledger, now, initialBalance, username, callVars,
                   pageVars>>

\* ------------------------------- sendFunds, the two-record revision
\* sendFunds of the TransactionService that pages/QRScannerModal.tsx
\* imports, run to its end.  o1..o6 are the outcomes of its six store calls
\* in order: sender select, receiver select, insert of the 'send' row,
\* insert of the 'receive' row, sender update, receiver update.
SendFundsTwoRecord(c, req, o1, o2, o3, o4, o5, o6) ==
    /\ pc[c] = "idle"
    /\ \A d \in Calls : d < c => pc[d] # "idle"
    /\ LET ended ==
               IF req.amount <= 0 \/ req.sender_id = req.receiver_id THEN 0
               ELSE IF o1 # "ok" \/ req.sender_id \notin Accounts THEN 1
               ELSE IF balance[req.sender_id] < req.amount THEN 1
               ELSE IF o2 # "ok" \/ req.receiver_id \notin Accounts THEN 2
               ELSE IF o3 # "ok" THEN 3
               ELSE IF o4 = "throw" THEN 4
               ELSE IF o5 # "ok" THEN 5
               ELSE 6
           row(type) == [sender_id |-> req.sender_id,
                         receiver_id |-> req.receiver_id,
                         amount |-> req.amount,
                         timestamp |-> now,
                         type |-> type]
           rows1 == IF ended >= 4 THEN Append(ledger, row("send")) ELSE ledger
           rows2 == IF ended >= 4 /\ o4 = "ok"
                      THEN Append(rows1, row("receive")) ELSE rows1
           b1 == IF ended = 6
                   THEN [balance EXCEPT ![req.sender_id] = @ - req.amount]
                   ELSE balance
           b2 == IF ended = 6 /\ o6 = "ok"
                   THEN [b1 EXCEPT ![req.receiver_id] =
                                      balance[req.receiver_id] + req.amount]
                   ELSE b1
           failed == CASE ended = 0 -> "ok"
                       [] ended = 1 -> o1
                       [] ended = 2 -> o2
                       [] ended = 3 -> o3
                       [] ended = 4 -> o4
                       [] ended = 5 -> o5
                       [] ended = 6 -> o6
           outcomes == <<<<"selectSender", o1>>, <<"selectReceiver", o2>>,
                         <<"insertTransaction", o3>>,
                         <<"insertTransaction", o4>>,
                         <<"updateSender", o5>>, <<"updateReceiver", o6>>>>
       IN  /\ ledger' = rows2
           /\ balance' = b2
           /\ request' = [request EXCEPT ![c] = req]
           /\ storeLog' = [storeLog EXCEPT ![c] = SubSeq(outcomes, 1, ended)]
           /\ Return(c,
                 IF failed = "throw" THEN ErrUnexpected
                 ELSE IF req.amount <= 0 THEN ErrAmount
                 ELSE IF req.sender_id = req.receiver_id THEN ErrSelf
                 ELSE IF ended = 1 /\ (o1 # "ok"
                                        \/ req.sender_id \notin Accounts)
                   THEN ErrSender
                 ELSE IF ended = 1 THEN ErrInsufficient
                 ELSE IF ended = 2 THEN ErrReceiver
                 ELSE IF ended = 3 THEN ErrTx
                 ELSE IF ended = 5 THEN ErrSenderUpdate
                 ELSE IF o6 # "ok" THEN ErrReceiverUpdate
                 ELSE Success)
    /\ UNCHANGED <<now, initialBalance, senderProfile, receiverProfile,
                   timestamp, transaction, balanceBefore, ledgerBefore,
                   interleaved>>

\* ------------------------------------------------- WalletPage.handleScan
sendVars == <<now, initialBalance, readVars, callVars, modalVars, sideVars>>

\* Lines 17-31: loadUser; the balance is set when the profile select gives a row.
LoadUser(o) ==
    /\ walletUser' = WalletAccount
    /\ walletBalance' = IF o = "ok" THEN balance[WalletAccount]
                                    ELSE walletBalance
    /\ UNCHANGED <<balance, ledger, walletScanned, sendVars, dashVars>>

\* Lines 34-80: handleScan(decodedText), run to its end.  o1..o4 are the
\* outcomes of its four store calls in order: sender update, receiver
\* select, receiver update, insert.  An error result is ignored; an
\* exception ends the handler where it is thrown.  The store rejects a row
\* whose receiver_id names no profile (foreign key).  Without a user, or
\* with a balance below the amount, only `scanned` is set.
HandleScan(decodedText, o1, o2, o3, o4) ==
    /\ Len(ledger) < MaxLedger
    /\ \A a \in Accounts : balance[a] <= MaxScans * ScanAmount
    /\ walletScanned' = decodedText
    /\ LET proceeds == walletUser # Null /\ ScanAmount <= walletBalance
           b1 == IF proceeds /\ o1 = "ok"
                   THEN [balance EXCEPT
                           ![walletUser] = walletBalance - ScanAmount]
                   ELSE balance
           found == o2 = "ok" /\ decodedText \in Accounts
           credited == proceeds /\ o1 # "throw" /\ found /\ o3 = "ok"
           b2 == IF credited
                   THEN [b1 EXCEPT ![decodedText] = b1[decodedText] + ScanAmount]
                   ELSE b1
           reachedInsert == /\ proceeds
                            /\ o1 # "throw" /\ o2 # "throw"
                            /\ (found => o3 # "throw")
           inserted == reachedInsert /\ o4 = "ok" /\ decodedText \in Accounts
           finished == reachedInsert /\ o4 # "throw"
       IN  /\ balance' = b2
           /\ ledger' = IF inserted
                          THEN Append(ledger, [sender_id |-> walletUser,
                                               receiver_id |-> decodedText,
                                               amount |-> ScanAmount,
                                               timestamp |-> Null,
                                               type |-> Null])
                          ELSE ledger
           /\ walletBalance' = IF finished THEN walletBalance - ScanAmount
                                           ELSE walletBalance
    /\ UNCHANGED <<walletUser, sendVars, dashVars>>

\* ------------------------------------------- Dashboard.executeTransfer
\* Line 299: `err.message || "Failed to process transaction."`.
ErrMessage(o) == IF o.message = "" THEN DashErrFallback ELSE o.message

\* The catch and finally blocks, lines 298-302.
DashFail(d, message) ==
    /\ dashError' = [dashError EXCEPT ![d] = message]
    /\ dashPc' = [dashPc EXCEPT ![d] = "done"]

DashAwait(d, label) ==
    /\ dashPc' = [dashPc EXCEPT ![d] = label]
    /\ UNCHANGED dashError

\* Lines 141-160 and 186-188: the page's `profile` is replaced by the
\* stored row (fetchProfile, or the profile subscription).
FetchProfile(d, o) ==
    /\ dashPc[d] = "idle"
    /\ dashProfile' = IF o = "ok"
                        THEN [dashProfile EXCEPT ![d] = balance[DashUser(d)]]
                        ELSE dashProfile
    /\ UNCHANGED <<balance, ledger, sendVars, walletVars, dashPc, dashInput,
                   dashReceiver, dashError, dashApplied>>

\* Lines 217-246: executeTransfer validates the form against the page's
\* `profile` and issues the receiver select.
ExecuteTransfer(d, receiverId, amount) ==
    /\ dashPc[d] = "idle"
    /\ dashProfile[d] # NoProfile
    /\ IF amount <= 0
         THEN /\ dashError' = [dashError EXCEPT ![d] = DashErrAmount]
              /\ UNCHANGED <<dashPc, dashInput>>
       ELSE IF amount > dashProfile[d]
         THEN /\ dashError' = [dashError EXCEPT ![d] = DashErrInsufficient]
              /\ UNCHANGED <<dashPc, dashInput>>
       ELSE IF receiverId = ""
         THEN /\ dashError' = [dashError EXCEPT ![d] = DashErrReceiverId]
              /\ UNCHANGED <<dashPc, dashInput>>
       ELSE IF receiverId = DashUser(d)
         THEN /\ dashError' = [dashError EXCEPT ![d] = DashErrSelf]
              /\ UNCHANGED <<dashPc, dashInput>>
       ELSE /\ dashError' = [dashError EXCEPT ![d] = Null]
            /\ dashInput' = [dashInput EXCEPT
                               ![d] = [receiverId |-> receiverId,
                                       amount |-> amount,
                                       balance |-> dashProfile[d]]]
            /\ dashPc' = [dashPc EXCEPT ![d] = "selectReceiver"]
    /\ UNCHANGED <<balance, ledger, sendVars, walletVars, dashProfile,
                   dashReceiver, dashApplied>>

\* Lines 242-257: the receiver select completes; then the debit is issued.
DashSelectReceiver(d, o) ==
    /\ dashPc[d] = "selectReceiver"
    /\ IF o.kind = "throw" THEN DashFail(d, ErrMessage(o))
       ELSE IF o.kind = "error" \/ dashInput[d].receiverId \notin Accounts
         THEN DashFail(d, DashErrNotFound)
       ELSE DashAwait(d, "deduct")
    /\ UNCHANGED <<balance, ledger, sendVars, walletVars, dashProfile,
                   dashInput, dashReceiver, dashApplied>>

\* Lines 254-266: the debit completes; then the receiver's balance is read.
DashDeduct(d, o) ==
    /\ dashPc[d] = "deduct"
    /\ IF o.kind = "ok"
         THEN /\ balance' = [balance EXCEPT
                 ![DashUser(d)] = dashInput[d].balance - dashInput[d].amount]
              /\ dashApplied' = [dashApplied EXCEPT ![d] = @ \cup {"debit"}]
              /\ DashAwait(d, "fetchReceiver")
         ELSE /\ UNCHANGED <<balance, dashApplied>>
              /\ DashFail(d, ErrMessage(o))
    /\ UNCHANGED <<ledger, sendVars, walletVars, dashProfile, dashInput,
                   dashReceiver>>

\* Lines 262-273: the balance read completes; then the credit is issued.
DashFetchReceiver(d, o) ==
    /\ dashPc[d] = "fetchReceiver"
    /\ IF o.kind = "ok"
         THEN /\ dashReceiver' = [dashReceiver EXCEPT
                                    ![d] = balance[dashInput[d].receiverId]]
              /\ DashAwait(d, "credit")
         ELSE /\ UNCHANGED dashReceiver
              /\ DashFail(d, ErrMessage(o))
    /\ UNCHANGED <<balance, ledger, sendVars, walletVars, dashProfile,
                   dashInput, dashApplied>>

\* Lines 270-287: the credit completes; then the ledger insert is issued.
DashCredit(d, o) ==
    /\ dashPc[d] = "credit"
    /\ IF o.kind = "ok"
         THEN /\ balance' = [balance EXCEPT
                 ![dashInput[d].receiverId] =
                     dashReceiver[d] + dashInput[d].amount]
              /\ dashApplied' = [dashApplied EXCEPT ![d] = @ \cup {"credit"}]
              /\ DashAwait(d, "log")
         ELSE /\ UNCHANGED <<balance, dashApplied>>
              /\ DashFail(d, ErrMessage(o))
    /\ UNCHANGED <<ledger, sendVars, walletVars, dashProfile, dashInput,
                   dashReceiver>>

\* Lines 278-302: the ledger insert completes and executeTransfer ends.
DashLog(d, o) ==
    /\ dashPc[d] = "log"
    /\ IF o.kind = "ok"
         THEN /\ ledger' = Append(ledger,
                              [sender_id |-> DashUser(d),
                               receiver_id |-> dashInput[d].receiverId,
                               amount |-> dashInput[d].amount,
                               timestamp |-> Null,
                               type |-> "send"])
              /\ dashApplied' = [dashApplied EXCEPT ![d] = @ \cup {"log"}]
              /\ dashPc' = [dashPc EXCEPT ![d] = "done"]
              /\ UNCHANGED dashError
         ELSE /\ UNCHANGED <<ledger, dashApplied>>
              /\ DashFail(d, ErrMessage(o))
    /\ UNCHANGED <<balance, sendVars, walletVars, dashProfile, dashInput,
                   dashReceiver>>

\* ------------------------------------------------------ SendFundsModal
quietVars == <<balance, ledger, now, initialBalance, readVars, callVars,
               pageVars>>

ModalEvent(handler, case) ==
    modalEvent' = [handler |-> handler, case |-> case]

\* The parent shows the modal (`isOpen` becomes true).
OpenModal ==
    /\ ~modalOpen
    /\ modalOpen' = TRUE
    /\ ModalEvent("open", "none")
    /\ UNCHANGED <<step, recipient, amountInput, modalReceiver, modalError,
                   modalBalance, pendingFinds, awaited, closeTimers, shownFor,
                   closedAfterDebit, resolvedIds, quietVars>>

\* Line 272: the recipient field, shown in the 'input' step, is edited.
TypeRecipient(text) ==
    /\ modalOpen /\ step = "input"
    /\ recipient' = text
    /\ UNCHANGED <<modalOpen, step, amountInput, modalReceiver, modalError,
                   modalBalance, pendingFinds, awaited, closeTimers, shownFor,
                   closedAfterDebit, resolvedIds, modalEvent, quietVars>>

\* Line 332: the amount field, shown in the 'confirm' step, is edited.
TypeAmount(m) ==
    /\ modalOpen /\ step = "confirm" /\ modalReceiver # Null
    /\ amountInput' = m
    /\ UNCHANGED <<modalOpen, step, recipient, modalReceiver, modalError,
                   modalBalance, pendingFinds, awaited, closeTimers, shownFor,
                   closedAfterDebit, resolvedIds, modalEvent, quietVars>>

\* Lines 160-168: handleFindRecipient up to its await (Enter in the
\* recipient field, or the Continue button).
HandleFindRecipient ==
    /\ modalOpen /\ step = "input"
    /\ Cardinality(pendingFinds) < MaxPendingFinds
    /\ IF recipient = EmptyText
         THEN /\ modalError' = ModalErrEmpty
              /\ ModalEvent("handleFindRecipient", "empty")
              /\ UNCHANGED pendingFinds
         ELSE /\ modalError' = ""
              /\ ModalEvent("handleFindRecipient", "lookup")
              /\ pendingFinds' = pendingFinds \cup {recipient}
    /\ UNCHANGED <<modalOpen, step, recipient, amountInput, modalReceiver,
                   modalBalance, awaited, closeTimers, shownFor,
                   closedAfterDebit, resolvedIds, quietVars>>

\* Lines 168-182: getUserByIdentifier returns and handleFindRecipient
\* runs to its end, whatever the modal shows by then.
FindResolved(text, o1, o2) ==
    /\ text \in pendingFinds
    /\ GetUserByIdentifier(text, o1, o2)
    /\ pendingFinds' = pendingFinds \ {text}
    /\ LET profile == readResult'.value
       IN  IF profile = Null
             THEN /\ modalError' = ModalErrNotFound
                  /\ ModalEvent("handleFindRecipient", "unknown")
                  /\ UNCHANGED <<step, modalReceiver, resolvedIds>>
           ELSE IF profile = CurrentUser
             THEN /\ modalError' = ModalErrSelf
                  /\ ModalEvent("handleFindRecipient", "self")
                  /\ resolvedIds' = resolvedIds \cup {profile}
                  /\ UNCHANGED <<step, modalReceiver>>
           ELSE /\ modalReceiver' = profile
                /\ step' = "confirm"
                /\ resolvedIds' = resolvedIds \cup {profile}
                /\ ModalEvent("handleFindRecipient", "resolved")
                /\ UNCHANGED modalError
    /\ UNCHANGED <<modalOpen, recipient, amountInput, modalBalance, awaited,
                   closeTimers, shownFor, closedAfterDebit>>

\* handleSend without the comparison with the displayed balance.
HandleSend_NoBalanceCheck ==
    /\ modalOpen /\ step = "confirm" /\ modalReceiver # Null
    /\ IF amountInput.nan \/ amountInput.value <= 0
         THEN /\ modalError' = ModalErrAmount
              /\ ModalEvent("handleSend", "invalid")
              /\ UNCHANGED <<step, awaited, quietVars>>
       ELSE \E c \in Calls :
              /\ SendFunds(c, [sender_id |-> CurrentUser,
                               receiver_id |-> modalReceiver,
                               amount |-> amountInput.value])
              /\ step' = "processing"
              /\ modalError' = ""
              /\ awaited' = awaited \cup {c}
              /\ ModalEvent("handleSend", "sent")
              /\ readResult' = NoRead
              /\ UNCHANGED <<username, pageVars>>
    /\ UNCHANGED <<modalOpen, recipient, amountInput, modalReceiver,
                   modalBalance, pendingFinds, closeTimers, shownFor,
                   closedAfterDebit, resolvedIds>>

\* Lines 184-207: handleSend up to its await (the Send button of the
\* 'confirm' step): the amount is validated and sendFunds is called.
HandleSend ==
    /\ modalOpen /\ step = "confirm" /\ modalReceiver # Null
    /\ IF amountInput.nan \/ amountInput.value <= 0
         THEN /\ modalError' = ModalErrAmount
              /\ ModalEvent("handleSend", "invalid")
              /\ UNCHANGED <<step, awaited, quietVars>>
       ELSE IF amountInput.value > modalBalance
         THEN /\ modalError' = ModalErrInsufficient
              /\ ModalEvent("handleSend", "excess")
              /\ UNCHANGED <<step, awaited, quietVars>>
       ELSE \E c \in Calls :
              /\ SendFunds(c, [sender_id |-> CurrentUser,
                               receiver_id |-> modalReceiver,
                               amount |-> amountInput.value])
              /\ step' = "processing"
              /\ modalError' = ""
              /\ awaited' = awaited \cup {c}
              /\ ModalEvent("handleSend", "sent")
              /\ readResult' = NoRead
              /\ UNCHANGED <<username, pageVars>>
    /\ UNCHANGED <<modalOpen, recipient, amountInput, modalReceiver,
                   modalBalance, pendingFinds, closeTimers, shownFor,
                   closedAfterDebit, resolvedIds>>

\* Lines 209-219: sendFunds returns and handleSend runs to its end,
\* whatever the modal shows by then.
SendResolved(c) ==
    /\ c \in awaited
    /\ pc[c] = "done"
    /\ awaited' = awaited \ {c}
    /\ shownFor' = c
    /\ IF result[c] = Success
         THEN /\ step' = "success"
              /\ closeTimers' = closeTimers + 1
              /\ ModalEvent("handleSend", "succeeded")
              /\ UNCHANGED modalError
         ELSE /\ step' = "error"
              /\ modalError' = result[c]
              /\ ModalEvent("handleSend", "failed")
              /\ UNCHANGED closeTimers
    /\ UNCHANGED <<modalOpen, recipient, amountInput, modalReceiver,
                   modalBalance, pendingFinds, closedAfterDebit, resolvedIds,
                   quietVars>>

\* Lines 221-229: handleClose resets the form and calls onClose.
ResetAndClose ==
    /\ step' = "input"
    /\ recipient' = EmptyText
    /\ amountInput' = [nan |-> TRUE, value |-> 0]
    /\ modalReceiver' = Null
    /\ modalError' = ""
    /\ modalOpen' = FALSE

\* Lines 249-254: the close button, shown in every step.
HandleClose ==
    /\ modalOpen
    /\ ResetAndClose
    /\ closedAfterDebit' =
           closedAfterDebit \cup
               {c \in awaited : pc[c] = "updateReceiver"}
    /\ ModalEvent("handleClose", "none")
    /\ UNCHANGED <<modalBalance, pendingFinds, awaited, closeTimers, shownFor,
                   resolvedIds, quietVars>>

\* Lines 211-214: two seconds after a success, onSuccess and handleClose run.
SuccessTimer ==
    /\ closeTimers > 0
    /\ closeTimers' = closeTimers - 1
    /\ ResetAndClose
    /\ ModalEvent("handleClose", "timer")
    /\ UNCHANGED <<modalBalance, pendingFinds, awaited, shownFor,
                   closedAfterDebit, resolvedIds, quietVars>>

\* Lines 231-235: handleBack (Back of the 'confirm' step, Try Again of the
\* 'error' step).
HandleBack ==
    /\ modalOpen
    /\ (step = "confirm" /\ modalReceiver # Null) \/ step = "error"
    /\ step' = "input"
    /\ modalReceiver' = Null
    /\ modalError' = ""
    /\ ModalEvent("handleBack", "none")
    /\ UNCHANGED <<modalOpen, recipient, amountInput, modalBalance,
                   pendingFinds, awaited, closeTimers, shownFor,
                   closedAfterDebit, resolvedIds, quietVars>>

\* ------------------------------------------------ QR payload helpers
\* Everything the transfer pages and the modal hold.
appVars == <<balance, ledger, now, initialBalance, readVars, callVars,
             modalVars, walletVars, dashVars>>

\* A page calls generateReceiveQRData for a user, at some time.
GenerateQR(userId, uname, stamp) ==
    /\ qrArgs' = [userId |-> userId, username |-> uname]
    /\ qrData' = GenerateReceiveQRData(userId, uname, stamp)
    /\ qrParsed' = NoParse
    /\ UNCHANGED <<appVars, authVars, scannerVars>>

\* A page calls parseQRData on a text.
ParseQR(qr) ==
    /\ qrParsed' = [input |-> qr, output |-> ParseQRData(qr)]
    /\ UNCHANGED <<qrArgs, qrData, appVars, authVars, scannerVars>>

\* ------------------------------------------------------- AuthProvider
\* Lines 69-88: fetchProfile gives the profile of the user, or null when
\* the select fails or throws.
FetchedProfile(userId, o) == IF o = "ok" THEN userId ELSE Null

\* Lines 101-110: handleSessionChange up to its await. `init` tells the
\* call made by initializeAuth from those made by the subscription.
HandleSessionChange(user, init) ==
    IF user = Null
      THEN /\ authSession' = Null
           /\ authProfile' = Null
           /\ initialized' = (initialized \/ init)
           /\ UNCHANGED pendingChange
      ELSE /\ pendingChange' = pendingChange \cup {[user |-> user, init |-> init]}
           /\ UNCHANGED <<authSession, authProfile, initialized>>

\* Lines 125-152: initializeAuth after getSession returned.
InitializeAuth(user, o) ==
    /\ ~initialized
    /\ \A e \in pendingChange : ~e.init
    /\ IF o = "ok"
         THEN HandleSessionChange(user, TRUE)
         ELSE /\ initialized' = TRUE
              /\ UNCHANGED <<authSession, authProfile, pendingChange>>
    /\ UNCHANGED <<pendingRefresh, appVars, qrVars, scannerVars>>

\* Lines 164-175: an auth event other than INITIAL_SESSION arrives.
AuthStateChange(user) ==
    /\ initialized
    /\ HandleSessionChange(user, FALSE)
    /\ UNCHANGED <<pendingRefresh, appVars, qrVars, scannerVars>>

\* Lines 112-122: fetchProfile returns and handleSessionChange runs to its
\* end, whatever the session is by then.
ChangeResolved(e, o) ==
    /\ e \in pendingChange
    /\ pendingChange' = pendingChange \ {e}
    /\ authSession' = e.user
    /\ authProfile' = FetchedProfile(e.user, o)
    /\ initialized' = (initialized \/ e.init)
    /\ UNCHANGED <<pendingRefresh, appVars, qrVars, scannerVars>>

\* Lines 90-93: refreshProfile up to its await.
RefreshProfile ==
    /\ authSession # Null
    /\ pendingRefresh' = pendingRefresh \cup {authSession}
    /\ UNCHANGED <<authSession, authProfile, initialized, pendingChange,
                   appVars, qrVars, scannerVars>>

\* Lines 93-98: fetchProfile returns and refreshProfile runs to its end,
\* whatever the session is by then.
RefreshResolved(user, o) ==
    /\ user \in pendingRefresh
    /\ pendingRefresh' = pendingRefresh \ {user}
    /\ IF FetchedProfile(user, o) # Null
         THEN authProfile' = FetchedProfile(user, o)
         ELSE UNCHANGED authProfile
    /\ UNCHANGED <<authSession, initialized, pendingChange, appVars, qrVars,
                   scannerVars>>

\* Lines 186-194: signOut after supabase.auth.signOut returned or threw.
SignOut(o) ==
    /\ IF o = "throw"
         THEN UNCHANGED <<authSession, authProfile>>
         ELSE authSession' = Null /\ authProfile' = Null
    /\ UNCHANGED <<initialized, pendingChange, pendingRefresh, appVars,
                   qrVars, scannerVars>>

\* ----------------------------------------------------- QRScannerModal
Pending(timers) == timers[TRUE] + timers[FALSE]

\* Lines 156-172: stopCamera.
StopCamera ==
    /\ intervals' = {i \in intervals : i.id # scanIntervalRef}
    /\ scanIntervalRef' = 0
    /\ streaming' = FALSE
    /\ isScanning' = FALSE

\* Lines 174-223: startQRScanning, called from a closure that saw
\* `isScanning` as `sees`. The video and canvas exist while the modal shows.
StartQRScanning(sees) ==
    IF scannerOpen
      THEN /\ nextInterval <= MaxIntervals
           /\ intervals' = intervals \cup {[id |-> nextInterval,
                                            sees |-> sees,
                                            mount |-> scannerMount]}
           /\ scanIntervalRef' = nextInterval
           /\ nextInterval' = nextInterval + 1
      ELSE UNCHANGED <<intervals, scanIntervalRef, nextInterval>>

\* Lines 27-37: the parent shows the modal and the effect starts a camera.
OpenScanner ==
    /\ ~scannerOpen
    /\ scannerMount < MaxMounts
    /\ Pending(cameraChains) < MaxChains
    /\ scannerOpen' = TRUE
    /\ scannerMount' = scannerMount + 1
    /\ hasPermission' = Null
    /\ permissionDenied' = FALSE
    /\ cameraChains' = [cameraChains EXCEPT ![isScanning] = @ + 1]
    /\ UNCHANGED <<isScanning, scanIntervalRef, intervals, nextInterval,
                   startTimers, resumeTimers, streaming, scanSuccess,
                   appVars, qrVars, authVars>>

\* Lines 256-266 and 38-44: handleClose, handleManualInput, or the parent
\* hiding the modal.
CloseScanner ==
    /\ scannerOpen
    /\ scannerOpen' = FALSE
    /\ StopCamera
    /\ UNCHANGED <<scannerMount, hasPermission, permissionDenied,
                   nextInterval, cameraChains, startTimers, resumeTimers,
                   scanSuccess, appVars, qrVars, authVars>>

\* Lines 109-128: getUserMedia resolved; with a video element shown the
\* preview plays and the 500 ms timer is set.
CameraStarted(sees) ==
    /\ cameraChains[sees] > 0
    /\ cameraChains' = [cameraChains EXCEPT ![sees] = @ - 1]
    /\ IF scannerOpen
         THEN /\ startTimers[sees] < MaxTimers
              /\ hasPermission' = "true"
              /\ isScanning' = TRUE
              /\ permissionDenied' = FALSE
              /\ streaming' = TRUE
              /\ startTimers' = [startTimers EXCEPT ![sees] = @ + 1]
         ELSE UNCHANGED <<hasPermission, isScanning, permissionDenied,
                          streaming, startTimers>>
    /\ UNCHANGED <<scannerOpen, scannerMount, scanIntervalRef, intervals,
                   nextInterval, resumeTimers, scanSuccess, appVars, qrVars,
                   authVars>>

\* Lines 75-96 and 131-149: startCamera ends without a camera.
CameraFailed(sees, denied) ==
    /\ cameraChains[sees] > 0
    /\ cameraChains' = [cameraChains EXCEPT ![sees] = @ - 1]
    /\ hasPermission' = "false"
    /\ permissionDenied' = (permissionDenied \/ denied)
    /\ UNCHANGED <<scannerOpen, scannerMount, isScanning, scanIntervalRef,
                   intervals, nextInterval, startTimers, resumeTimers,
                   streaming, scanSuccess, appVars, qrVars, authVars>>

\* Lines 268-273: handleRetryCamera (the Try Again button).
HandleRetryCamera ==
    /\ scannerOpen /\ hasPermission = "false" /\ permissionDenied
    /\ Pending(cameraChains) < MaxChains
    /\ permissionDenied' = FALSE
    /\ hasPermission' = Null
    /\ cameraChains' = [cameraChains EXCEPT ![isScanning] = @ + 1]
    /\ UNCHANGED <<scannerOpen, scannerMount, isScanning, scanIntervalRef,
                   intervals, nextInterval, startTimers, resumeTimers,
                   streaming, scanSuccess, appVars, qrVars, authVars>>

\* Lines 125-127: the 500 ms timer fires.
StartTimerFires(sees) ==
    /\ startTimers[sees] > 0
    /\ startTimers' = [startTimers EXCEPT ![sees] = @ - 1]
    /\ StartQRScanning(sees)
    /\ UNCHANGED <<scannerOpen, scannerMount, isScanning, hasPermission,
                   permissionDenied, cameraChains, resumeTimers, streaming,
                   scanSuccess, appVars, qrVars, authVars>>

\* Lines 225-254: handleQRCodeDetected.
HandleQRCodeDetected(qrText, sees) ==
    LET parsed == ParseQRData(qrText)
    IN  IF ~parsed.null /\ Truthy(parsed.userId)
          THEN /\ scanSuccess' = parsed
               /\ scannerOpen' = FALSE
               /\ StopCamera
               /\ UNCHANGED <<resumeTimers, nextInterval>>
          ELSE /\ resumeTimers[sees] < MaxTimers
               /\ isScanning' = FALSE
               /\ resumeTimers' = [resumeTimers EXCEPT ![sees] = @ + 1]
               /\ UNCHANGED <<scanSuccess, scannerOpen, intervals,
                              scanIntervalRef, streaming, nextInterval>>

\* Lines 192-219: an interval timer runs `scan`; `code` is what jsQR finds
\* in the frame (NoText: nothing).
ScanTick(i, code) ==
    /\ i \in intervals
    /\ IF /\ i.sees
          /\ streaming /\ i.mount = scannerMount
          /\ code # NoText
         THEN HandleQRCodeDetected(code, i.sees)
         ELSE UNCHANGED <<scanSuccess, scannerOpen, isScanning, intervals,
                          scanIntervalRef, streaming, nextInterval,
                          resumeTimers>>
    /\ UNCHANGED <<scannerMount, hasPermission, permissionDenied,
                   cameraChains, startTimers, appVars, qrVars, authVars>>

\* Lines 246-251: the 2-second timer fires.
ResumeTimerFires(sees) ==
    /\ resumeTimers[sees] > 0
    /\ resumeTimers' = [resumeTimers EXCEPT ![sees] = @ - 1]
    /\ isScanning' = TRUE
    /\ StartQRScanning(sees)
    /\ UNCHANGED <<scannerOpen, scannerMount, hasPermission,
                   permissionDenied, cameraChains, startTimers, streaming,
                   scanSuccess, appVars, qrVars, authVars>>

\* Lines 292-299: simulateScan (the development build's test button).
SimulateScan(stamp) ==
    /\ scannerOpen
    /\ HandleQRCodeDetected(
           GenerateReceiveQRData(JStr("test-user-id"), JStr("testuser"), stamp),
           isScanning)
    /\ UNCHANGED <<scannerMount, hasPermission, permissionDenied,
                   cameraChains, startTimers, appVars, qrVars, authVars>>

\* Time passes between two steps.
Tick ==
    /\ now < MaxTime
    /\ now' = now + 1
    /\ UNCHANGED <<balance, ledger, pc, request, senderProfile,
                   receiverProfile, timestamp, transaction, result, storeLog,
                   balanceBefore, ledgerBefore, interleaved, initialBalance,
                   readVars, pageVars, modalVars>>

Requests == [sender_id : Ids, receiver_id : Ids, amount : Amounts]

\* A step of a sendFunds call touches no username; readResult holds what
\* the latest read returned only while no transfer has taken a step since.
SendFrame ==
    UNCHANGED <<username, pageVars, modalVars>> /\ readResult' = NoRead

\* Concurrent sendFunds calls.
Next ==
    \/ \E c \in Calls, req \in Requests : SendFunds(c, req) /\ SendFrame
    \/ \E c \in Calls, o \in StoreOutcomes : GetSender(c, o) /\ SendFrame
    \/ \E c \in Calls, o \in StoreOutcomes : GetReceiver(c, o) /\ SendFrame
    \/ \E c \in Calls, o \in StoreOutcomes :
            InsertTransaction(c, o) /\ SendFrame
    \/ \E c \in Calls, o \in StoreOutcomes : UpdateSender(c, o) /\ SendFrame
    \/ \E c \in Calls, o \in StoreOutcomes : UpdateReceiver(c, o) /\ SendFrame

Spec == Init /\ [][Next]_vars

\* Transfers, the clock and the read paths together, from funded accounts.
\* The requests are those that pass validation, so that rows get written.
LedgerRequests ==
    {req \in Requests : /\ req.sender_id \in {"a", "b"}
                        /\ req.receiver_id \in {"a", "b"}
                        /\ req.sender_id # req.receiver_id
                        /\ req.amount = 1}
LedgerTexts == {t \in Texts : t.ats = 0 /\ t.body \in {"a", "ann"}}

InitLedger == Init /\ \A a \in Accounts : balance[a] = MaxInitBalance

NextLedger ==
    \/ \E c \in Calls, req \in LedgerRequests : SendFunds(c, req) /\ SendFrame
    \/ \E c \in Calls, o \in StoreOutcomes : GetSender(c, o) /\ SendFrame
    \/ \E c \in Calls, o \in StoreOutcomes : GetReceiver(c, o) /\ SendFrame
    \/ \E c \in Calls, o \in StoreOutcomes :
            InsertTransaction(c, o) /\ SendFrame
    \/ \E c \in Calls, o \in StoreOutcomes : UpdateSender(c, o) /\ SendFrame
    \/ \E c \in Calls, o \in StoreOutcomes : UpdateReceiver(c, o) /\ SendFrame
    \/ Tick
    \/ \E u \in {"a"}, l \in Limits, o \in StoreOutcomes :
            GetTransactionHistory(u, l, o)
    \/ \E t \in LedgerTexts, o1, o2 \in StoreOutcomes :
            GetUserByIdentifier(t, o1, o2) /\ UNCHANGED modalVars

SpecLedger == InitLedger /\ [][NextLedger]_vars

\* getTransactionHistory over the ledgers that transfers can leave behind:
\* rows between any two accounts, in any order of arrival.
HistoryRows ==
    {row \in [sender_id : Accounts, receiver_id : Accounts, amount : {1},
              timestamp : Times, type : {Null}] :
        row.sender_id # row.receiver_id}

Ledgers == UNION {[1 .. n -> HistoryRows] : n \in 0 .. MaxLedger}

InitHistory ==
    /\ balance = [a \in Accounts |-> MaxInitBalance]
    /\ initialBalance = balance
    /\ ledger \in Ledgers
    /\ now = 0
    /\ username = ("a" :> [ats |-> 0, body |-> "ann"])
                     @@ ("b" :> [ats |-> 0, body |-> "bob"])
                     @@ ("c" :> [ats |-> 1, body |-> "bob"])
    /\ InitCalls /\ InitReads /\ InitPages

NextHistory ==
    \E u \in Accounts, l \in Limits, o \in StoreOutcomes :
        GetTransactionHistory(u, l, o)

SpecHistory == InitHistory /\ [][NextHistory]_vars

\* Transfers made through the two-record revision, and their history.
NextTwoRecord ==
    \/ \E c \in Calls, req \in LedgerRequests,
          o1, o2, o3, o4, o5, o6 \in StoreOutcomes :
            SendFundsTwoRecord(c, req, o1, o2, o3, o4, o5, o6) /\ SendFrame
    \/ \E u \in {"a"}, l \in Limits, o \in StoreOutcomes :
            GetTransactionHistory(u, l, o)

SpecTwoRecord == InitLedger /\ [][NextTwoRecord]_vars

\* One SendFundsModal filled in by any user: which inputs lead to a call.
NextModalForm ==
    \/ OpenModal
    \/ \E t \in RecipientInputs : TypeRecipient(t)
    \/ \E m \in AmountInputs : TypeAmount(m)
    \/ HandleFindRecipient
    \/ \E t \in RecipientInputs, o1, o2 \in StoreOutcomes :
            FindResolved(t, o1, o2)
    \/ HandleSend
    \/ HandleClose
    \/ HandleBack

SpecModalForm == InitLedger /\ [][NextModalForm]_vars

\* One SendFundsModal and the sendFunds calls it makes, step by step, for a
\* user who sends valid amounts to one existing account.
ModalRecipients == {t \in RecipientInputs : t.ats = 0 /\ t.body = "b"}
ModalAmounts == {m \in AmountInputs : ~m.nan /\ m.value = 1}

NextModal ==
    \/ OpenModal
    \/ \E t \in ModalRecipients : TypeRecipient(t)
    \/ \E m \in ModalAmounts : TypeAmount(m)
    \/ HandleFindRecipient
    \/ \E t \in ModalRecipients, o1, o2 \in StoreOutcomes :
            FindResolved(t, o1, o2)
    \/ HandleSend
    \/ \E c \in Calls : SendResolved(c)
    \/ HandleClose
    \/ SuccessTimer
    \/ HandleBack
    \/ \E c \in Calls, o \in StoreOutcomes : GetSender(c, o) /\ SendFrame
    \/ \E c \in Calls, o \in StoreOutcomes : GetReceiver(c, o) /\ SendFrame
    \/ \E c \in Calls, o \in StoreOutcomes :
            InsertTransaction(c, o) /\ SendFrame
    \/ \E c \in Calls, o \in StoreOutcomes : UpdateSender(c, o) /\ SendFrame
    \/ \E c \in Calls, o \in StoreOutcomes : UpdateReceiver(c, o) /\ SendFrame

SpecModal == InitLedger /\ [][NextModal]_vars

\* QR payloads generated and parsed.
NextQR ==
    \/ \E u \in QRUserIds, n \in QRUsernames, t \in QRStamps :
            GenerateQR(u, n, t)
    \/ \E qr \in QRPayloads \cup {qrData} : ParseQR(qr)

SpecQR == InitLedger /\ [][NextQR]_vars

\* One AuthProvider under any order of auth events and fetch completions.
NextAuth ==
    \/ \E u \in AuthUsers \cup {Null}, o \in StoreOutcomes :
            InitializeAuth(u, o)
    \/ \E u \in AuthUsers \cup {Null} : AuthStateChange(u)
    \/ \E e \in pendingChange, o \in StoreOutcomes : ChangeResolved(e, o)
    \/ RefreshProfile
    \/ \E u \in AuthUsers, o \in StoreOutcomes : RefreshResolved(u, o)
    \/ \E o \in StoreOutcomes : SignOut(o)

SpecAuth == InitLedger /\ [][NextAuth]_vars

\* One QRScannerModal opened, scanning and closed in any order.
NextScanner ==
    \/ OpenScanner
    \/ CloseScanner
    \/ \E sees \in BOOLEAN : CameraStarted(sees)
    \/ \E sees, denied \in BOOLEAN : CameraFailed(sees, denied)
    \/ HandleRetryCamera
    \/ \E sees \in BOOLEAN : StartTimerFires(sees)
    \/ \E i \in intervals, code \in QRPayloads \cup {NoText} :
            ScanTick(i, code)
    \/ \E sees \in BOOLEAN : ResumeTimerFires(sees)
    \/ \E stamp \in QRStamps : SimulateScan(stamp)

SpecScanner == InitLedger /\ [][NextScanner]_vars

\* The WalletPage of one signed-in account, scanning codes.
InitWallet ==
    /\ balance \in [Accounts -> {0, ScanAmount}]
    /\ initialBalance = balance
    /\ ledger = <<>>
    /\ now = 0
    /\ username = ("a" :> [ats |-> 0, body |-> "ann"])
                     @@ ("b" :> [ats |-> 0, body |-> "bob"])
                     @@ ("c" :> [ats |-> 1, body |-> "bob"])
    /\ InitCalls /\ InitReads /\ InitPages

NextWallet ==
    \/ \E o \in StoreOutcomes : LoadUser(o)
    \/ \E decodedText \in Ids, o1, o2, o3, o4 \in StoreOutcomes :
            HandleScan(decodedText, o1, o2, o3, o4)

SpecWallet == InitWallet /\ [][NextWallet]_vars

\* Dashboard pages making transfers, one each.
DashAmounts == {0, 1, MaxInitBalance + 1}

NextDashboard ==
    \/ \E d \in Dashboards, o \in StoreOutcomes : FetchProfile(d, o)
    \/ \E d \in Dashboards, r \in DashReceiverIds, m \in DashAmounts :
            ExecuteTransfer(d, r, m)
    \/ \E d \in Dashboards, o \in DashOutcomes : DashSelectReceiver(d, o)
    \/ \E d \in Dashboards, o \in DashOutcomes : DashDeduct(d, o)
    \/ \E d \in Dashboards, o \in DashOutcomes : DashFetchReceiver(d, o)
    \/ \E d \in Dashboards, o \in DashOutcomes : DashCredit(d, o)
    \/ \E d \in Dashboards, o \in DashOutcomes : DashLog(d, o)

SpecDashboard == InitLedger /\ [][NextDashboard]_vars

\* getUserByIdentifier over the usernames registration can store: any text,
\* UUID-shaped or starting with '@' included, unique per account.
Usernames == {t \in Texts : t.ats <= 1}

InitLookup ==
    /\ balance = [a \in Accounts |-> MaxInitBalance]
    /\ initialBalance = balance
    /\ ledger = <<>>
    /\ now = 0
    /\ username \in {f \in [Accounts -> Usernames] :
                        \A a, b \in Accounts : a # b => f[a] # f[b]}
    /\ InitCalls /\ InitReads /\ InitPages

NextLookup ==
    \E t \in Texts, o1, o2 \in StoreOutcomes :
        GetUserByIdentifier(t, o1, o2) /\ UNCHANGED modalVars

SpecLookup == InitLookup /\ [][NextLookup]_vars

\* =================================================================
\* Helpers for stating the properties
\* =================================================================
RECURSIVE SumBalances(_, _)
SumBalances(b, S) ==
    IF S = {} THEN 0
    ELSE LET a == CHOOSE x \in S : TRUE
         IN  b[a] + SumBalances(b, S \ {a})

RECURSIVE SumAmounts(_)
SumAmounts(S) ==
    IF S = {} THEN 0
    ELSE LET c == CHOOSE x \in S : TRUE
         IN  request[c].amount + SumAmounts(S \ {c})

Done(c) == pc[c] = "done"
\* Every store call that call c issued returned without error.
StoreOk(log) == \A i \in 1 .. Len(log) : log[i][2] = "ok"
\* Number of rows call c added to `transactions`.
RowsAdded(log) ==
    Cardinality({i \in 1 .. Len(log) : log[i] = <<"insertTransaction", "ok">>})
\* Call c issued no insert and no update.
NoWrites(log) ==
    \A i \in 1 .. Len(log) : log[i][1] \in {"selectSender", "selectReceiver"}
Winners == {c \in Calls : result[c] = Success}
ValidTransfer(req, b) ==
    /\ req.sender_id \in Accounts
    /\ req.receiver_id \in Accounts
    /\ req.sender_id # req.receiver_id
    /\ req.amount > 0
    /\ req.amount <= b[req.sender_id]

\* =================================================================
\* C1: whenever no sendFunds call is in flight (and no store call failed),
\* the sum of all balances equals the initial sum, in every interleaving.
\* =================================================================
C1_Conservation ==
    (NoneInFlight /\ \A c \in Calls : StoreOk(storeLog[c]))
        => SumBalances(balance, Accounts) = SumBalances(initialBalance, Accounts)

\* =================================================================
\* C2: when all calls debit the same sender, the successful ones fit in the
\* sender's initial balance, every other call failed with the
\* insufficient-funds error, and the sender ends with the initial balance
\* minus the successful amounts.
\* =================================================================
SameSenderRace(s) ==
    \A c \in Calls :
        /\ Done(c)
        /\ request[c].sender_id = s
        /\ request[c].receiver_id \in Accounts \ {s}
        /\ request[c].amount > 0
        /\ StoreOk(storeLog[c])

C2_ConcurrentDebitsFit ==
    \A s \in Accounts :
        SameSenderRace(s) =>
            /\ SumAmounts(Winners) <= initialBalance[s]
            /\ \A c \in Calls \ Winners : result[c] = ErrInsufficient
            /\ balance[s] = initialBalance[s] - SumAmounts(Winners)

\* =================================================================
\* C3: every balance is >= 0 in every reachable state, under any
\* interleaving and any store failure.
\* =================================================================
C3_NonNegative == \A a \in Accounts : balance[a] >= 0

\* Two successful calls raced on one sender for more than it held.
C3_Witness ==
    \E c, d \in Calls :
        /\ c # d
        /\ result[c] = Success /\ result[d] = Success
        /\ interleaved[c]
        /\ request[c].sender_id = request[d].sender_id
        /\ request[c].amount + request[d].amount
               > initialBalance[request[c].sender_id]

\* =================================================================
\* C4: a call that returns a failure with no other call's balance write
\* interleaved leaves every balance as it was before the call.
\* =================================================================
C4_FailureRestoresBalances ==
    [][\A c \in Calls :
          (pc[c] # "done" /\ pc'[c] = "done" /\ result'[c] # Success
             /\ ~interleaved'[c])
              => balance' = balanceBefore'[c]]_vars

\* =================================================================
\* C5: a call that returned success added exactly one ledger row, a call
\* that returned a failure added none.
\* =================================================================
C5_ExactlyOneEntry ==
    \A c \in Calls :
        Done(c) =>
            RowsAdded(storeLog[c]) = (IF result[c] = Success THEN 1 ELSE 0)

\* =================================================================
\* C6: sendFunds returns the error of the first failing precondition.
\* =================================================================
\* Both selects the call issued returned without a store error.
SelectsOk(log) ==
    \A i \in 1 .. Len(log) :
        log[i][1] \in {"selectSender", "selectReceiver"} => log[i][2] = "ok"

\* The order the claim states: amount, self, sender, receiver, balance.
ClaimedOrderError(req, bal) ==
    IF req.amount <= 0 THEN ErrAmount
    ELSE IF req.sender_id = req.receiver_id THEN ErrSelf
    ELSE IF req.sender_id \notin Accounts THEN ErrSender
    ELSE IF req.receiver_id \notin Accounts THEN ErrReceiver
    ELSE IF bal < req.amount THEN ErrInsufficient
    ELSE "none"

\* The amended order: amount, self, sender, balance, receiver.
AmendedOrderError(req, bal) ==
    IF req.amount <= 0 THEN ErrAmount
    ELSE IF req.sender_id = req.receiver_id THEN ErrSelf
    ELSE IF req.sender_id \notin Accounts THEN ErrSender
    ELSE IF bal < req.amount THEN ErrInsufficient
    ELSE IF req.receiver_id \notin Accounts THEN ErrReceiver
    ELSE "none"

\* C6 as claimed: a call whose selects did not fail returns the first
\* failing check in the order amount > 0, sender # receiver, sender exists,
\* receiver exists, sender balance >= amount (and no validation error when
\* none fails).
C6_ClaimedOrder ==
    \A c \in Calls :
        (Done(c) /\ SelectsOk(storeLog[c])) =>
            LET e == ClaimedOrderError(request[c], senderProfile[c])
            IN  IF e = "none" THEN result[c] \notin ValidationErrors
                              ELSE result[c] = e

\* C6 amended: a call whose selects did not fail returns the first failing
\* check in the order amount > 0, sender # receiver, sender exists, sender
\* balance (as read) >= amount, receiver exists; an unknown receiver together
\* with an amount above the balance gives the insufficient-funds error.
C6_CheckOrder ==
    \A c \in Calls :
        (Done(c) /\ SelectsOk(storeLog[c])) =>
            LET e == AmendedOrderError(request[c], senderProfile[c])
            IN  IF e = "none" THEN result[c] \notin ValidationErrors
                              ELSE result[c] = e

\* An unknown receiver and an amount above the sender's balance.
C6_Witness ==
    \E c \in Calls :
        /\ Done(c) /\ SelectsOk(storeLog[c])
        /\ request[c].amount > 0
        /\ request[c].sender_id \in Accounts
        /\ request[c].receiver_id \notin Accounts
        /\ senderProfile[c] # NoProfile
        /\ senderProfile[c] < request[c].amount
        /\ result[c] = ErrInsufficient

\* =================================================================
\* C7: sendFunds with sender_id = receiver_id and amount > 0 fails with the
\* self-transfer error without issuing any store call, whether or not the
\* account exists and whatever its balance.
\* =================================================================
C7_SelfTransfer ==
    \A c \in Calls :
        (Done(c) /\ request[c].amount > 0
                 /\ request[c].sender_id = request[c].receiver_id)
            => (result[c] = ErrSelf /\ storeLog[c] = <<>>)

\* A self-transfer of an affordable amount on an existing account, and one
\* on an unknown id.
C7_Witness ==
    \E c, d \in Calls :
        /\ Done(c) /\ Done(d)
        /\ request[c].sender_id \in Accounts
        /\ request[c].receiver_id = request[c].sender_id
        /\ request[c].amount > 0
        /\ request[c].amount <= balance[request[c].sender_id]
        /\ request[d].sender_id \notin Accounts
        /\ request[d].receiver_id = request[d].sender_id
        /\ request[d].amount > 0

\* =================================================================
\* C8: the step in which a call returns a validation error changes no
\* balance and no ledger row, the call has issued no insert or update, and
\* if no other call wrote a balance meanwhile every balance is as it was
\* when the call started.
\* =================================================================
C8_ValidationNoEffect ==
    [][\A c \in Calls :
          (pc[c] # "done" /\ pc'[c] = "done" /\ result'[c] \in ValidationErrors)
              => /\ balance' = balance
                 /\ ledger' = ledger
                 /\ NoWrites(storeLog'[c])
                 /\ (~interleaved'[c] => balance' = balanceBefore'[c])]_vars

\* One call rejected for insufficient funds, one for an unknown receiver.
C8_Witness ==
    \E c, d \in Calls :
        /\ result[c] = ErrInsufficient
        /\ result[d] = ErrReceiver
        /\ request[d].receiver_id \notin Accounts

\* =================================================================
\* C9: a call with a valid request (existing distinct sender and receiver,
\* 0 < amount <= sender balance) that runs with no other balance write
\* interleaved and whose store calls all succeed returns success, moves
\* exactly the amount from sender to receiver, changes no other balance and
\* has recorded one ledger row carrying its sender, receiver and amount.
\* =================================================================
C9_SequentialTransfer ==
    [][\A c \in Calls :
          (pc[c] # "done" /\ pc'[c] = "done" /\ ~interleaved'[c]
             /\ ValidTransfer(request'[c], balanceBefore'[c])
             /\ StoreOk(storeLog'[c]))
              => LET req == request'[c]
                 IN  /\ result'[c] = Success
                     /\ balance' = [balanceBefore'[c] EXCEPT
                                      ![req.sender_id] = @ - req.amount,
                                      ![req.receiver_id] = @ + req.amount]
                     /\ RowsAdded(storeLog'[c]) = 1
                     /\ transaction'[c] \in 1 .. Len(ledger')
                     /\ ledger'[transaction'[c]].sender_id = req.sender_id
                     /\ ledger'[transaction'[c]].receiver_id = req.receiver_id
                     /\ ledger'[transaction'[c]].amount = req.amount]_vars

\* A successful uninterleaved transfer that left the sender a remainder.
C9_Witness ==
    \E c \in Calls :
        /\ Done(c) /\ result[c] = Success /\ ~interleaved[c]
        /\ balanceBefore[c][request[c].sender_id] > request[c].amount
        /\ balanceBefore[c][request[c].receiver_id] > 0

\* =================================================================
\* C10: when the sender's stored balance is below the amount at the moment
\* the debit is applied, the call aborts with the insufficient-funds error
\* and no balance changes.
\* =================================================================
C10_StaleDebitAborts ==
    [][\A c \in Calls :
          (pc[c] = "updateSender" /\ pc'[c] # "updateSender"
             /\ storeLog'[c][Len(storeLog'[c])] = <<"updateSender", "ok">>
             /\ balance[request[c].sender_id] < request[c].amount)
              => (result'[c] = ErrInsufficient /\ balance' = balance)]_vars

\* =================================================================
\* C11: a call's ledger row exists only after its sender debit and its
\* receiver credit have both been applied.
\* =================================================================
Issued(log, op) == \E i \in 1 .. Len(log) : log[i] = <<op, "ok">>

C11_LedgerAfterMovement ==
    \A c \in Calls :
        transaction[c] # 0 =>
            (Issued(storeLog[c], "updateSender")
                /\ Issued(storeLog[c], "updateReceiver"))

\* =================================================================
\* C13: whenever no call is in flight, every balance equals the initial
\* balance plus the amounts of the ledger rows naming the account as
\* receiver minus the amounts of the rows naming it as sender.
\* =================================================================
RECURSIVE LedgerNet(_, _, _)
LedgerNet(l, a, i) ==
    IF i = 0 THEN 0
    ELSE LedgerNet(l, a, i - 1)
           + (IF l[i].receiver_id = a THEN l[i].amount ELSE 0)
           - (IF l[i].sender_id = a THEN l[i].amount ELSE 0)

C13_LedgerMatchesBalances ==
    NoneInFlight =>
        \A a \in Accounts :
            balance[a] = initialBalance[a] + LedgerNet(ledger, a, Len(ledger))

\* =================================================================
\* C20: when a call repeats the request of an earlier call that returned
\* success before it started, the sender can still afford the amount, no
\* other balance write is interleaved and its store calls succeed, the
\* repeat returns success too, moves the amount a second time and adds a
\* second ledger row for the same sender, receiver and amount.
\* =================================================================
IsRetry(d, c) ==
    /\ c # d
    /\ request'[d] = request'[c]
    /\ result'[c] = Success
    /\ transaction'[c] \in 1 .. Len(ledgerBefore'[d])
    /\ balanceBefore'[d][request'[c].receiver_id]
           = balanceBefore'[c][request'[c].receiver_id] + request'[c].amount

C20_RetryMovesFundsAgain ==
    [][\A c, d \in Calls :
          (pc[d] # "done" /\ pc'[d] = "done" /\ IsRetry(d, c)
             /\ ~interleaved'[d] /\ StoreOk(storeLog'[d])
             /\ ValidTransfer(request'[d], balanceBefore'[d]))
              => LET req == request'[d]
                 IN  /\ result'[d] = Success
                     /\ balance' = [balanceBefore'[d] EXCEPT
                                      ![req.sender_id] = @ - req.amount,
                                      ![req.receiver_id] = @ + req.amount]
                     /\ transaction'[d] \in 1 .. Len(ledger')
                     /\ transaction'[d] # transaction'[c]
                     /\ ledger'[transaction'[d]].sender_id = req.sender_id
                     /\ ledger'[transaction'[d]].receiver_id = req.receiver_id
                     /\ ledger'[transaction'[d]].amount = req.amount]_vars

\* The same request applied twice, one call after the other.
C20_Witness ==
    \E c, d \in Calls :
        /\ c # d /\ request[c] = request[d]
        /\ result[c] = Success /\ result[d] = Success
        /\ ~interleaved[c] /\ ~interleaved[d]
        /\ transaction[c] \in 1 .. Len(ledgerBefore[d])
        /\ Len(ledger) = 2

\* C14: under sendFunds, getTransactionHistory and getUserByIdentifier the
\* ledger is append-only: every step leaves each existing row, its timestamp
\* included, in place and unchanged, and removes none.
C14_AppendOnly ==
    [][/\ Len(ledger') >= Len(ledger)
       /\ SubSeq(ledger', 1, Len(ledger)) = ledger]_vars

\* Two rows written at different times, and a read made after them.
C14_Witness ==
    /\ Len(ledger) = 2
    /\ ledger[1].timestamp # ledger[2].timestamp
    /\ readResult.op = "getUserByIdentifier"

\* C16: getTransactionHistory(userId, limit) returns only ledger entries in
\* which userId is the sender or the receiver, each once, at most `limit` of
\* them, ordered by timestamp descending, and no entry left out is more
\* recent than one returned.
C16_HistoryContract ==
    (readResult.op = "getTransactionHistory" /\ readResult.ok) =>
        LET v == readResult.value
            u == readResult.arg
            mine == {i \in 1 .. Len(ledger) :
                        ledger[i].sender_id = u \/ ledger[i].receiver_id = u}
            shown == {v[k].id : k \in 1 .. Len(v)}
        IN  /\ shown \subseteq mine
            /\ \A k \in 1 .. Len(v) :
                   /\ v[k].sender_id = ledger[v[k].id].sender_id
                   /\ v[k].receiver_id = ledger[v[k].id].receiver_id
                   /\ v[k].amount = ledger[v[k].id].amount
                   /\ v[k].timestamp = ledger[v[k].id].timestamp
            /\ \A j, k \in 1 .. Len(v) : j # k => v[j].id # v[k].id
            /\ Len(v) <= readResult.limit
            /\ Len(v) = readResult.limit \/ shown = mine
            /\ \A j, k \in 1 .. Len(v) :
                   j < k => v[j].timestamp >= v[k].timestamp
            /\ \A i \in mine \ shown : \A k \in 1 .. Len(v) :
                   ledger[i].timestamp <= v[k].timestamp

\* A history cut short by its limit, of a ledger that also holds a row of
\* other accounts and rows of the user with different timestamps.
C16_Witness ==
    /\ readResult.op = "getTransactionHistory" /\ readResult.ok
    /\ Len(readResult.value) = readResult.limit
    /\ \E i, j, k \in 1 .. Len(ledger) :
          /\ ledger[i].sender_id # readResult.arg
          /\ ledger[i].receiver_id # readResult.arg
          /\ j # k
          /\ readResult.arg \in {ledger[j].sender_id, ledger[j].receiver_id}
          /\ readResult.arg \in {ledger[k].sender_id, ledger[k].receiver_id}
          /\ ledger[j].timestamp # ledger[k].timestamp
          /\ readResult.value[1].id = j

\* C18: a getTransactionHistory call that follows another with the same
\* userId and limit, no transfer having completed or been in progress since
\* the first, returns the identical sequence, and changes neither balances
\* nor ledger.
C18_RepeatableRead ==
    [][(/\ readResult.op = "getTransactionHistory"
        /\ readResult'.op = "getTransactionHistory"
        /\ readResult.ok /\ readResult'.ok
        /\ readResult'.arg = readResult.arg
        /\ readResult'.limit = readResult.limit
        /\ NoneInFlight)
       => /\ readResult'.value = readResult.value
          /\ balance' = balance
          /\ ledger' = ledger]_vars

\* C19: when its store calls succeed, getUserByIdentifier returns the
\* account whose id is the text if the text is id-shaped and names one;
\* otherwise the account whose handle is the text with one leading '@'
\* stripped; and null only when neither matches.  An id match wins over
\* another account's handle.
C19_Lookup ==
    (readResult.op = "getUserByIdentifier" /\ readResult.ok) =>
        LET t == readResult.arg
            byId == IF t.ats = 0 /\ t.body \in Accounts
                      THEN {t.body} ELSE {}
            handle == IF t.ats > 0 THEN [ats |-> t.ats - 1, body |-> t.body]
                                   ELSE t
            byHandle == {a \in Accounts : username[a] = handle}
        IN  /\ byId # {} => readResult.value \in byId
            /\ (byId = {} /\ byHandle # {}) => readResult.value \in byHandle
            /\ (byId = {} /\ byHandle = {}) <=> readResult.value = Null

\* The text is one account's id and another account's handle.
C19_Witness ==
    /\ readResult.op = "getUserByIdentifier" /\ readResult.ok
    /\ readResult.arg.ats = 0
    /\ readResult.arg.body \in Accounts
    /\ \E a \in Accounts : a # readResult.arg.body
                              /\ username[a] = readResult.arg
    /\ readResult.value = readResult.arg.body

\* C12: a transfer whose debit and credit were applied and whose ledger
\* write then failed ends with an outcome different from that of every
\* failed transfer that moved no money.
C12_LedgerFailureDistinct ==
    \A d, e \in Dashboards :
        (/\ dashPc[d] = "done" /\ dashApplied[d] = {"debit", "credit"}
         /\ dashPc[e] = "done" /\ dashApplied[e] = {}
         /\ dashError[e] # Null)
        => dashError[d] # dashError[e]

\* C15: every ledger entry has sender_id # receiver_id and amount > 0, and
\* both ids name existing accounts.
C15_LedgerRows ==
    \A i \in 1 .. Len(ledger) :
        /\ ledger[i].sender_id # ledger[i].receiver_id
        /\ ledger[i].amount > 0
        /\ ledger[i].sender_id \in Accounts
        /\ ledger[i].receiver_id \in Accounts

\* C17: no ledger row stores a perspective; every entry that
\* getTransactionHistory(userId) returns is annotated 'send' exactly when
\* its sender_id is userId and 'receive' otherwise; and a history shows no
\* more entries than there were transfers involving userId.
C17_ReadTimePerspective ==
    /\ \A i \in 1 .. Len(ledger) : ledger[i].type = Null
    /\ (readResult.op = "getTransactionHistory" /\ readResult.ok) =>
          /\ \A k \in 1 .. Len(readResult.value) :
                 readResult.value[k].type =
                     IF readResult.value[k].sender_id = readResult.arg
                       THEN "send" ELSE "receive"
          /\ Len(readResult.value) <=
                 Cardinality({c \in Calls :
                     /\ pc[c] # "idle"
                     /\ readResult.arg \in {request[c].sender_id,
                                             request[c].receiver_id}})

\* C24: the debit Dashboard.executeTransfer writes is relative to the
\* balance stored at write time: the sender's new balance is the stored
\* balance minus the amount, whatever happened since the page loaded it.
C24_DebitAtWriteTime ==
    [][\A d \in Dashboards :
          (dashPc[d] = "deduct" /\ dashPc'[d] = "fetchReceiver")
          => balance'[DashUser(d)] = balance[DashUser(d)] - dashInput[d].amount
      ]_vars

\* C26: a sendFunds call that returned success issued the ledger insert,
\* the sender balance write and the receiver balance write, and every one
\* of these store calls returned without error.
C26_SuccessMeansAllWritten ==
    \A c \in Calls :
        (pc[c] = "done" /\ result[c] = Success) =>
            /\ \A op \in {"insertTransaction", "updateSender",
                           "updateReceiver"} :
                   \E k \in 1 .. Len(storeLog[c]) : storeLog[c][k][1] = op
            /\ \A k \in 1 .. Len(storeLog[c]) : storeLog[c][k][2] = "ok"

\* C25: a handleScan of a text that names no account changes no balance
\* and writes no ledger entry.
C25_UnknownReceiverNoMutation ==
    [][(walletScanned' \notin Accounts \cup {Null})
       => (balance' = balance /\ ledger' = ledger)]_vars

TypeOK ==
    /\ balance \in [Accounts -> Int]
    /\ pc \in [Calls -> {"idle", "getSender", "getReceiver",
                         "insertTransaction", "updateSender",
                         "updateReceiver", "done"}]
    /\ \A c \in Calls : request[c] \in Requests \cup {NoRequest}

\* =================================================================
\* C21: a sendFunds failure that comes after the call wrote a ledger row or
\* changed a balance is never shown as a plain retryable error: the modal
\* is not in its 'error' step (with 'Try Again') for such a call, and the
\* call does not return the 'Please try again' message.
\* =================================================================
\* Call c made at least one write that the store applied.
PartlyApplied(c) ==
    \E op \in {"insertTransaction", "updateSender", "updateReceiver"} :
        Issued(storeLog[c], op)

C21_NoPlainRetryAfterWrite ==
    \A c \in Calls :
        /\ (step = "error" /\ shownFor = c) => ~PartlyApplied(c)
        /\ (Done(c) /\ result[c] = ErrUnexpected) => ~PartlyApplied(c)

\* =================================================================
\* C22: when the modal is closed while 'processing', after the call's debit
\* was applied, the call still ends with debit, credit and ledger row all
\* applied or none of them.
\* =================================================================
AllApplied(c) ==
    \A op \in {"insertTransaction", "updateSender", "updateReceiver"} :
        Issued(storeLog[c], op)

C22_CloseNeverHalfApplies ==
    \A c \in closedAfterDebit :
        Done(c) => (AllApplied(c) \/ ~PartlyApplied(c))

\* =================================================================
\* C27: the modal calls sendFunds only from its 'confirm' step, for a
\* receiver that getUserByIdentifier resolved and that is not the current
\* user, with 0 < amount <= the displayed balance; an empty, unknown or own
\* recipient and an invalid or excessive amount leave an error message and
\* start no call.
\* =================================================================
RejectedCases == {"empty", "unknown", "self", "invalid", "excess"}

C27_CallOnlyFromConfirm ==
    [][/\ \A c \in Calls :
            (pc[c] = "idle" /\ pc'[c] # "idle") =>
                /\ modalOpen /\ step = "confirm"
                /\ modalReceiver \in resolvedIds
                /\ modalReceiver # CurrentUser
                /\ ~amountInput.nan
                /\ amountInput.value > 0
                /\ amountInput.value <= modalBalance
                /\ request'[c] = [sender_id |-> CurrentUser,
                                  receiver_id |-> modalReceiver,
                                  amount |-> amountInput.value]
                /\ modalEvent'.case = "sent"
       /\ (modalEvent'.case \in RejectedCases) =>
              (modalError' # "" /\ pc' = pc)
      ]_vars

\* A call was made from the 'confirm' step, and the modal is processing it.
C27_Witness ==
    /\ step = "processing"
    /\ modalEvent = [handler |-> "handleSend", case |-> "sent"]
    /\ \E c \in awaited : pc[c] # "idle" /\ request[c].amount > 0

\* =================================================================
\* C28: one SendFundsModal has at most one sendFunds call in flight at any
\* time, whatever the user does, and its 'success' step is shown only for
\* the transfer submitted last.
\* =================================================================
\* Call slots are used in index order: the last submitted is the highest.
LastSubmitted ==
    IF \A c \in Calls : pc[c] = "idle" THEN 0
    ELSE CHOOSE c \in Calls :
            pc[c] # "idle" /\ \A d \in Calls : pc[d] # "idle" => d <= c

C28_OneCallInFlight ==
    /\ Cardinality({c \in Calls : InFlight(c)}) <= 1
    /\ step = "success" => shownFor = LastSubmitted

\* =================================================================
\* C23: parseQRData(generateReceiveQRData(userId, username)) returns that
\* userId and username for every non-empty userId, whatever the timestamp;
\* parseQRData returns null for a text that is no JSON object, has another
\* type discriminator, or has no userId.
\* =================================================================
C23_QRRoundTrip ==
    /\ (/\ qrArgs # NoArgs
        /\ qrArgs.userId # JStr("")
        /\ qrParsed.input = qrData)
         => qrParsed.output = [null |-> FALSE,
                               userId |-> qrArgs.userId,
                               username |-> qrArgs.username]
    /\ (/\ qrParsed # NoParse
        /\ \/ qrParsed.input.kind # "object"
           \/ Property(qrParsed.input.members, "type") # JStr(TransferType)
           \/ Property(qrParsed.input.members, "userId") = Undefined)
         => qrParsed.output.null

\* A payload generated without a username was parsed back.
C23_Witness ==
    /\ qrArgs = [userId |-> JStr("a"), username |-> Undefined]
    /\ qrParsed.input = qrData
    /\ ~qrParsed.output.null

\* =================================================================
\* C29: whenever the AuthProvider's session is null its profile is null
\* too, also after a pending refreshProfile or handleSessionChange fetch
\* completes.
\* =================================================================
C29_NoProfileWithoutSession ==
    authSession = Null => authProfile = Null

\* =================================================================
\* C30: the QRScannerModal has at most one scan interval timer active at
\* any time, and none while it is closed.
\* =================================================================
C30_OneScanInterval ==
    /\ Cardinality(intervals) <= 1
    /\ ~scannerOpen => intervals = {}

====
